---- MODULE Spec2Model ----
(***************************************************************************)
(* Task execution and lifecycle coordinator of nzb3/workmate_test:         *)
(* the in-memory task repository (a sync.Map of task copies), the registry *)
(* of task contexts, the per-task executor goroutine and the service       *)
(* operations CreateTask, GetTask, DeleteTask, ListTasks and Shutdown.     *)
(*                                                                         *)
(* Every sync.Map operation (Load, Store, Delete, one key of a Range),     *)
(* every operation under a TaskContext's lock and every WaitGroup          *)
(* operation is one atomic step; goroutines interleave between the steps.  *)
(* The ticker period and the shutdown timer are shorter than one unit of   *)
(* the clock: they may fire at any moment and have fired when the clock    *)
(* advances, so a tick may be waiting whenever the executor comes to its   *)
(* select.  A goroutine blocked in a select is woken by the first event    *)
(* that becomes ready; a select that is evaluated with several cases       *)
(* ready takes any of them.                                                *)
(***************************************************************************)
EXTENDS Integers, FiniteSets, Sequences, TLC

\* ---------------------------------------------------------------- bounds
MaxTasks == 2        \* task identifiers; concurrent CreateTask calls
MaxTime == 3         \* the clock stops here
MaxCallers == 2      \* goroutines calling CreateTask, DeleteTask
MaxMarks == 4        \* markFinished calls on one context
MaxObjects == 5      \* Task objects the callers and the repository allocate

\* ----------------------------------- durations, in units of the clock
\* The program draws the workload from 3 + {0, 1, 2} minutes and times a
\* task out after 6 = 3 + 3 minutes, one minute after the longest workload.
\* The model keeps that shape on a coarser clock.
workDurationBase == 1
workDurationSpread == 2
defaultTimeToProcessTask == workDurationBase + workDurationSpread

Ids == 1..MaxTasks
Callers == 1..MaxCallers

StatusDone == "DONE"
StatusProcessing == "PROCESSING"
StatusFailed == "FAILED"
TaskStatus == {StatusDone, StatusProcessing, StatusFailed}

VARIABLES
    now,          \* the clock
    store,        \* InMemoryTaskRepository.store: task id -> stored copy
    contexts,     \* Service.contexts: the ids that have a registered context
    tctx,         \* the TaskContext objects: id -> [Started, Done, Status]
    cancelFired,  \* ids whose context.CancelFunc has been called
    wg,           \* Service.wg counter
    exec,         \* the executeTask goroutines
    nextID,       \* number of identifiers drawn by uuid.New so far
    th,           \* goroutines calling CreateTask / DeleteTask
    rd,           \* the goroutine calling GetTask / ListTasks
    sd,           \* the goroutine calling Shutdown, its timer and wg.Wait goroutine
    mf,           \* a TaskContext driven directly through markFinished
    aux,          \* the goroutine calling WaitForTask / GetTaskStatus
    mem,          \* the repository seen as pointers: Task objects, stored and held addresses
    lk,           \* one TaskContext with its mutex, and the goroutines that lock it or block
    quota,        \* calls the environment may still make
    hist          \* history of the calls made and of what the reads returned

vars == <<now, store, contexts, tctx, cancelFired, wg, exec,
          nextID, th, rd, sd, mf, aux, mem, lk, quota, hist>>

\* ------------------------------------------------------------ map helpers
\* sync.Map.Store
Put(m, k, v) == [x \in (DOMAIN m) \cup {k} |-> IF x = k THEN v ELSE m[x]]
\* sync.Map.Delete
Remove(m, k) == [x \in (DOMAIN m) \ {k} |-> m[x]]

EmptyMap == [x \in {} |-> 0]

\* ------------------------------------------------------------- taskmodel
NilTask == [ID |-> 0, Name |-> "", Status |-> "", CreatedAt |-> 0, ProcessingTime |-> 0]

\* a generator that hands out one identifier again and again
uuidRepeated(n) == 1

\* uuid.New: a fresh identifier on every call
uuidNew(n) == n + 1

NewTask(id, name) == [NilTask EXCEPT !.ID = id, !.Name = name]

IsProcessing(t) == t.Status = StatusProcessing

\* a copy that leaves the Name field out
copyTaskWithoutName(original) ==
    [ID |-> original.ID, Name |-> "", Status |-> original.Status,
     CreatedAt |-> original.CreatedAt, ProcessingTime |-> original.ProcessingTime]

\* InMemoryTaskRepository.copyTask
copyTask(original) ==
    [ID |-> original.ID, Name |-> original.Name, Status |-> original.Status,
     CreatedAt |-> original.CreatedAt, ProcessingTime |-> original.ProcessingTime]

\* ----------------------------------------------------------- TaskContext
NewTaskContext(t) == [Started |-> t, Done |-> FALSE, Status |-> StatusProcessing]

IsFinished(tc) == tc.Done

\* TaskContext.markFinished: Status is assigned, Done is closed unless closed
markFinished(tc, status) == [tc EXCEPT !.Status = status, !.Done = TRUE]

\* the close(tc.Done) calls one markFinished makes
closesDone(tc) == IF tc.Done THEN 0 ELSE 1

\* ctx.Done() of the executor's context: cancelled or past its deadline
CtxDoneAt(id, t) ==
    \/ id \in cancelFired
    \/ id \in DOMAIN tctx /\ t - tctx[id].Started >= defaultTimeToProcessTask

CtxDone(id) == CtxDoneAt(id, now)

\* time.Since
Since(t) == now - t

\* time.Duration(3+rand.Intn(3)) * time.Minute
WorkDurations == {workDurationBase + r : r \in 0..(workDurationSpread - 1)}

\* a finalizeTask that records no processing time
finalizeTaskFromZero(task, status, processingTime) ==
    [task EXCEPT !.Status = status, !.ProcessingTime = 0]

\* a finalizeTask that leaves the processing time as the last tick set it
finalizeTaskStatusOnly(task, status, processingTime) ==
    [task EXCEPT !.Status = status]

\* Service.finalizeTask, the assignments (its repo.Update is the steps below)
finalizeTask(task, status, processingTime) ==
    [task EXCEPT !.Status = status, !.ProcessingTime = processingTime]

\* the test of Create, Update and Delete: r.store.Load(id) found a value
Loaded(id) == id \in DOMAIN store

\* context.CancelFunc: a goroutine blocked in the executor's select is woken
CancelWake(e, id) ==
    IF e[id].pc = "parked" THEN [e EXCEPT ![id].pc = "on_cancel"] ELSE e

\* the goroutines around one TaskContext: the callers of CreateTask,
\* GetTaskStatus, WaitForTask, Shutdown, GetTask and DeleteTask, and executeTask
Units == {"create", "exec", "status", "wait", "shutdown", "get", "delete"}

\* before CreateTask: mu unlocked, Done open, nothing stored or registered
IdleLk == [pc |-> [u \in Units |->
                     CASE u = "create" -> "c_store" [] u = "exec" -> "idle"
                       [] u = "status" -> "load" [] u = "wait" -> "load"
                       [] u = "shutdown" -> "range" [] u = "get" -> "r_get"
                       [] OTHER -> "d_get"],
           w |-> "",            \* the goroutine holding mu.Lock
           r |-> {},            \* the goroutines holding mu.RLock
           pend |-> {},         \* the goroutines waiting in mu.Lock
           done |-> FALSE,      \* tc.Done is closed
           status |-> StatusProcessing,
           final |-> "",        \* the status executeTask is finalizing with
           again |-> FALSE,     \* executeTask is in the markFinished of its deferred function
           seen |-> [u \in Units |-> FALSE],   \* what IsFinished returned
           stored |-> FALSE, registered |-> FALSE, cancelled |-> FALSE, wgc |-> 0]

\* no Task object allocated, nothing stored, nothing held by a caller
IdleMem == [heap |-> <<>>, repo |-> EmptyMap, held |-> {}]

\* a copy that hands back the pointer it was given
copyTaskShared(h, a) == [heap |-> h, ref |-> a]

\* copyTask as an allocation: a new Task object holding the five copied fields
copyTaskRef(h, a) == [heap |-> Append(h, copyTask(h[a])), ref |-> Len(h) + 1]

\* an executor that has not yet reported completion through s.wg.Done()
Running(id) == exec[id].pc \notin {"idle", "defer_chk", "defer_del", "exited"}

\* ------------------------------------------------------------------ Init
IdleExec == [pc |-> "idle", task |-> NilTask, start |-> 0, workDuration |-> 0, race |-> FALSE]
IdleThread == [pc |-> "idle", id |-> 0, name |-> "", task |-> NilTask]
IdleReader == [pc |-> "idle", op |-> "", scope |-> {}, tasks |-> <<>>, rem |-> {}, idx |-> 0,
               known |-> {},       \* ids CreateTask had returned when the read began
               delSnap |-> {},     \* ids DeleteTask had returned nil for when the read began
               fresh |-> FALSE]    \* the read began after CreateTask returned the id and
                                   \* before its executor finalized or DeleteTask was called

IdleAux == [pc |-> "idle", op |-> "", id |-> 0,
            registered |-> FALSE,   \* a context was registered for id at the call
            expired |-> FALSE,      \* the ctx given to WaitForTask is done
            blocked |-> FALSE,      \* WaitForTask has blocked in its select
            result |-> "", status |-> ""]

InitWith(q) ==
    /\ now = 0
    /\ store = EmptyMap
    /\ contexts = {}
    /\ tctx = EmptyMap
    /\ cancelFired = {}
    /\ wg = 0
    /\ exec = [id \in Ids |-> IdleExec]
    /\ nextID = 0
    /\ th = [c \in Callers |-> IdleThread]
    /\ rd = IdleReader
    /\ sd = [pc |-> "idle", rem |-> {}, expired |-> FALSE, done |-> FALSE,
             waiter |-> "none", result |-> "none"]
    /\ mf = [tc |-> NewTaskContext(0), calls |-> <<>>, closes |-> 0]
    /\ aux = IdleAux
    /\ mem = IdleMem
    /\ lk = IdleLk
    /\ quota = q
    /\ hist = [created |-> EmptyMap,     \* id -> the task CreateTask returned
               asked |-> EmptyMap,       \* id -> the name CreateTask was called with
               returned |-> 0,           \* CreateTask calls that returned a task
               concurrent |-> FALSE,     \* two CreateTask calls have been in progress at once
               repoCreated |-> [id \in Ids |-> 0],   \* direct Create calls that returned nil
               delCalled |-> {},         \* ids DeleteTask was called with
               delCount |-> 0,           \* DeleteTask calls made
               delLast |-> 0,            \* the id of the latest DeleteTask call
               delNotFound |-> {},       \* ids DeleteTask returned GetByID's error for
               delAfterCreate |-> {},    \* ... after CreateTask had returned them
               delOk |-> {},             \* ids DeleteTask returned nil for
               delEarly |-> {},          \* ... before the executor had finalized
               finalized |-> {},         \* ids whose executor called finalizeTask
               cancelledDone |-> {},     \* ids finalized DONE by a tick that the select took
               updFailed |-> {},         \* ids whose periodic Update returned an error
                                         \* with ctx.Done ready and the workload elapsed
               seenTerminal |-> {},      \* ids a read has shown DONE or FAILED
               lastPt |-> [id \in Ids |-> -1],   \* processing time of the last PROCESSING read
               sdLaunched |-> {},        \* executors launched before Shutdown was called
               sdLive |-> {},            \* contexts live when Shutdown was called
               sdLate |-> FALSE]         \* the deadline elapsed with such an executor running

\* close(tc.Done): a goroutine blocked in WaitForTask's select on it returns nil
DoneWake(a, id) ==
    IF a.pc = "w_parked" /\ a.id = id THEN [a EXCEPT !.pc = "returned", !.result = "ok"] ELSE a

\* the lowest idle caller takes the next call (callers are interchangeable)
Free(c) == th[c].pc = "idle" /\ \A d \in Callers : d < c => th[d].pc # "idle"

\* ------------------------------------------------------------ executeTask
\* lines 296-304: draw the workload, start the ticker, take the start time
ExStart(id) ==
    /\ exec[id].pc = "init"
    /\ \E w \in WorkDurations :
         exec' = [exec EXCEPT ![id].pc = "select", ![id].start = now, ![id].workDuration = w]
    /\ UNCHANGED <<now, store, contexts, tctx, cancelFired, wg, nextID, th, rd, sd, mf, aux, mem, lk, quota, hist>>

\* lines 307-314: the select is evaluated; with nothing ready the goroutine parks
ExSelect(id) ==
    /\ exec[id].pc = "select"
    /\ \E tick \in BOOLEAN :        \* ticker.C holds a tick
         LET ready == (IF CtxDone(id) THEN {"on_cancel"} ELSE {})
                      \cup (IF tick THEN {"on_tick"} ELSE {})
         IN IF ready = {}
            THEN exec' = [exec EXCEPT ![id].pc = "parked"]
            ELSE \E c \in ready :
                   exec' = [exec EXCEPT ![id].pc = c,
                                        ![id].race = /\ c = "on_tick"
                                                     /\ CtxDone(id)
                                                     /\ Since(exec[id].start) >= exec[id].workDuration]
    /\ UNCHANGED <<now, store, contexts, tctx, cancelFired, wg, nextID, th, rd, sd, mf, aux, mem, lk, quota, hist>>

\* a cancellation branch that goes round the loop again
ExOnCancelContinue(id) ==
    /\ exec[id].pc = "on_cancel"
    /\ exec' = [exec EXCEPT ![id].pc = "select"]
    /\ UNCHANGED <<now, store, contexts, tctx, cancelFired, wg, nextID, th, rd, sd, mf, aux, mem, lk, quota, hist>>

\* lines 308-310, 336-339, 57: case <-ctx.Done(): finalizeTask(FAILED), Update's Load
ExOnCancel(id) ==
    /\ exec[id].pc = "on_cancel"
    /\ exec' = [exec EXCEPT ![id].task = finalizeTask(@, StatusFailed, Since(exec[id].start)),
                            ![id].pc = IF Loaded(id) THEN "fin_store" ELSE "mark",
                            ![id].start = 0, ![id].workDuration = 0]
    /\ hist' = [hist EXCEPT !.finalized = @ \cup {id}]
    /\ UNCHANGED <<now, store, contexts, tctx, cancelFired, wg, nextID, th, rd, sd, mf, aux, mem, lk, quota>>

\* a tick branch that logs a failed Update and goes on polling
ExOnTickKeepPolling(id) ==
    /\ exec[id].pc = "on_tick"
    /\ LET elapsed == Since(exec[id].start)
       IN IF elapsed >= exec[id].workDuration
          THEN /\ exec' = [exec EXCEPT ![id].task = finalizeTask(@, StatusDone, elapsed),
                                       ![id].pc = IF Loaded(id) THEN "fin_store" ELSE "mark",
                                       ![id].start = 0, ![id].workDuration = 0,
                                       ![id].race = FALSE]
               /\ hist' = [hist EXCEPT !.finalized = @ \cup {id},
                                       !.cancelledDone = IF exec[id].race THEN @ \cup {id} ELSE @]
          ELSE IF Loaded(id)
          THEN /\ exec' = [exec EXCEPT ![id].task.ProcessingTime = elapsed,
                                       ![id].pc = "upd_store", ![id].race = FALSE]
               /\ UNCHANGED hist
          ELSE /\ exec' = [exec EXCEPT ![id].task.ProcessingTime = elapsed,
                                       ![id].pc = "select", ![id].race = FALSE]
               /\ hist' = [hist EXCEPT !.updFailed = @ \cup {id}]
    /\ UNCHANGED <<now, store, contexts, tctx, cancelFired, wg, nextID, th, rd, sd, mf, aux, mem, lk, quota>>

\* lines 314-327, 57: case <-ticker.C: elapsed, then finalizeTask(DONE) or Update up to its Load
ExOnTick(id) ==
    /\ exec[id].pc = "on_tick"
    /\ LET elapsed == Since(exec[id].start)
       IN IF elapsed >= exec[id].workDuration
          THEN /\ exec' = [exec EXCEPT ![id].task = finalizeTask(@, StatusDone, elapsed),
                                       ![id].pc = IF Loaded(id) THEN "fin_store" ELSE "mark",
                                       ![id].start = 0, ![id].workDuration = 0,
                                       ![id].race = FALSE]
               /\ hist' = [hist EXCEPT !.finalized = @ \cup {id},
                                       !.cancelledDone = IF exec[id].race THEN @ \cup {id} ELSE @]
          ELSE IF Loaded(id)
          THEN /\ exec' = [exec EXCEPT ![id].task.ProcessingTime = elapsed,
                                       ![id].pc = "upd_store", ![id].race = FALSE]
               /\ UNCHANGED hist
          ELSE \* Update failed: finalizeTask(FAILED, elapsed)
               /\ exec' = [exec EXCEPT ![id].task = finalizeTask(@, StatusFailed, elapsed),
                                       ![id].pc = "fin_load",
                                       ![id].start = 0, ![id].workDuration = 0,
                                       ![id].race = FALSE]
               /\ hist' = [hist EXCEPT !.finalized = @ \cup {id},
                                       !.updFailed = @ \cup {id}]
    /\ UNCHANGED <<now, store, contexts, tctx, cancelFired, wg, nextID, th, rd, sd, mf, aux, mem, lk, quota>>

\* lines 61-62: the periodic Update stores its copy, then back to the select
ExUpdStore(id) ==
    /\ exec[id].pc = "upd_store"
    /\ store' = Put(store, id, copyTask(exec[id].task))
    /\ exec' = [exec EXCEPT ![id].pc = "select"]
    /\ UNCHANGED <<now, contexts, tctx, cancelFired, wg, nextID, th, rd, sd, mf, aux, mem, lk, quota, hist>>

\* lines 339, 57: finalizeTask's Update after a failed periodic Update: its Load
ExFinLoad(id) ==
    /\ exec[id].pc = "fin_load"
    /\ exec' = [exec EXCEPT ![id].pc = IF Loaded(id) THEN "fin_store" ELSE "mark"]
    /\ UNCHANGED <<now, store, contexts, tctx, cancelFired, wg, nextID, th, rd, sd, mf, aux, mem, lk, quota, hist>>

\* lines 61-62: finalizeTask's Update stores its copy
ExFinStore(id) ==
    /\ exec[id].pc = "fin_store"
    /\ store' = Put(store, id, copyTask(exec[id].task))
    /\ exec' = [exec EXCEPT ![id].pc = "mark"]
    /\ UNCHANGED <<now, contexts, tctx, cancelFired, wg, nextID, th, rd, sd, mf, aux, mem, lk, quota, hist>>

\* lines 311, 321, 328: taskContext.markFinished(status), then return
ExMark(id) ==
    /\ exec[id].pc = "mark"
    /\ tctx' = [tctx EXCEPT ![id] = markFinished(@, exec[id].task.Status)]
    /\ aux' = DoneWake(aux, id)
    /\ exec' = [exec EXCEPT ![id].pc = "defer_wg", ![id].task = NilTask]
    /\ UNCHANGED <<now, store, contexts, cancelFired, wg, nextID, th, rd, sd, mf, mem, lk, quota, hist>>

\* line 288: s.wg.Done()
ExDeferWg(id) ==
    /\ exec[id].pc = "defer_wg"
    /\ wg' = wg - 1
    /\ exec' = [exec EXCEPT ![id].pc = "defer_chk"]
    /\ UNCHANGED <<now, store, contexts, tctx, cancelFired, nextID, th, rd, sd, mf, aux, mem, lk, quota, hist>>

\* lines 289-291: force FAILED when the context was not marked finished
ExDeferChk(id) ==
    /\ exec[id].pc = "defer_chk"
    /\ IF ~IsFinished(tctx[id])
       THEN /\ tctx' = [tctx EXCEPT ![id] = markFinished(@, StatusFailed)]
            /\ aux' = DoneWake(aux, id)
       ELSE UNCHANGED <<tctx, aux>>
    /\ exec' = [exec EXCEPT ![id].pc = "defer_del"]
    /\ UNCHANGED <<now, store, contexts, cancelFired, wg, nextID, th, rd, sd, mf, mem, lk, quota, hist>>

\* a deferred function that leaves the registry entry in place
ExDeferKeepContext(id) ==
    /\ exec[id].pc = "defer_del"
    /\ exec' = [exec EXCEPT ![id].pc = "exited"]
    /\ UNCHANGED <<now, store, contexts, tctx, cancelFired, wg, nextID, th, rd, sd, mf, aux, mem, lk, quota, hist>>

\* line 292: s.contexts.Delete(task.ID)
ExDeferDel(id) ==
    /\ exec[id].pc = "defer_del"
    /\ contexts' = contexts \ {id}
    /\ exec' = [exec EXCEPT ![id].pc = "exited"]
    /\ UNCHANGED <<now, store, tctx, cancelFired, wg, nextID, th, rd, sd, mf, aux, mem, lk, quota, hist>>

\* time.Ticker: a tick wakes the executor blocked in the select
TickerFire(id) ==
    /\ exec[id].pc = "parked"
    /\ exec' = [exec EXCEPT ![id].pc = "on_tick"]
    /\ UNCHANGED <<now, store, contexts, tctx, cancelFired, wg, nextID, th, rd, sd, mf, aux, mem, lk, quota, hist>>

\* ------------------------------------------------------------- CreateTask
\* the positions of a caller inside CreateTask
CreatePcs == {"c_store", "c_ctx", "c_wg", "c_go"}

\* lines 202-206, 26-28: NewTask, status and creation time, Create up to its Load
CreateTaskBegin(c) ==
    /\ Free(c)
    /\ quota.create > 0
    /\ quota' = [quota EXCEPT !.create = @ - 1]
    /\ nextID' = nextID + 1
    /\ \E name \in quota.names :
         LET id == uuidNew(nextID)
             task == [NewTask(id, name) EXCEPT !.Status = StatusProcessing, !.CreatedAt = now]
         IN th' = [th EXCEPT ![c] = IF Loaded(id) THEN IdleThread
                                    ELSE [IdleThread EXCEPT !.pc = "c_store", !.id = id,
                                                            !.name = name, !.task = task]]
    /\ hist' = [hist EXCEPT !.concurrent = @ \/ \E d \in Callers : th[d].pc \in CreatePcs]
    /\ UNCHANGED <<now, store, contexts, tctx, cancelFired, wg, exec, rd, sd, mf, aux, mem, lk>>

\* lines 30-33: Create stamps CreatedAt on the caller's task and stores a copy
CreateTaskStore(c) ==
    /\ th[c].pc = "c_store"
    /\ LET task == [th[c].task EXCEPT !.CreatedAt = now]
       IN /\ store' = Put(store, task.ID, copyTask(task))
          /\ th' = [th EXCEPT ![c].task = task, ![c].pc = "c_ctx"]
    /\ UNCHANGED <<now, contexts, tctx, cancelFired, wg, exec, nextID, rd, sd, mf, aux, mem, lk, quota, hist>>

\* a CreateTask that builds the TaskContext and does not store it in s.contexts
CreateTaskContextUnstored(c) ==
    /\ th[c].pc = "c_ctx"
    /\ tctx' = Put(tctx, th[c].id, NewTaskContext(now))
    /\ cancelFired' = cancelFired \ {th[c].id}
    /\ th' = [th EXCEPT ![c].pc = "c_wg"]
    /\ UNCHANGED <<now, store, contexts, wg, exec, nextID, rd, sd, mf, aux, mem, lk, quota, hist>>

\* lines 209-218: context.WithTimeout, the TaskContext, s.contexts.Store
CreateTaskContext(c) ==
    /\ th[c].pc = "c_ctx"
    /\ tctx' = Put(tctx, th[c].id, NewTaskContext(now))
    /\ cancelFired' = cancelFired \ {th[c].id}
    /\ contexts' = contexts \cup {th[c].id}
    /\ th' = [th EXCEPT ![c].pc = "c_wg"]
    /\ UNCHANGED <<now, store, wg, exec, nextID, rd, sd, mf, aux, mem, lk, quota, hist>>

\* CreateTask without its s.wg.Add(1)
CreateTaskWithoutAdd(c) ==
    /\ th[c].pc = "c_wg"
    /\ th' = [th EXCEPT ![c].pc = "c_go"]
    /\ UNCHANGED <<now, store, contexts, tctx, cancelFired, wg, exec, nextID, rd, sd, mf, aux, mem, lk, quota, hist>>

\* line 219: s.wg.Add(1)
CreateTaskAdd(c) ==
    /\ th[c].pc = "c_wg"
    /\ wg' = wg + 1
    /\ th' = [th EXCEPT ![c].pc = "c_go"]
    /\ UNCHANGED <<now, store, contexts, tctx, cancelFired, exec, nextID, rd, sd, mf, aux, mem, lk, quota, hist>>

\* lines 221-223: go s.executeTask(taskCtx, *task, taskContext); return task
CreateTaskGo(c) ==
    /\ th[c].pc = "c_go"
    /\ exec' = [exec EXCEPT ![th[c].id] = [IdleExec EXCEPT !.pc = "init", !.task = th[c].task]]
    /\ hist' = [hist EXCEPT !.created = Put(@, th[c].id, th[c].task),
                            !.asked = Put(@, th[c].id, th[c].name),
                            !.returned = @ + 1]
    /\ th' = [th EXCEPT ![c] = IdleThread]
    /\ UNCHANGED <<now, store, contexts, tctx, cancelFired, wg, nextID, rd, sd, mf, aux, mem, lk, quota>>

\* ------------------------------------------------------------- DeleteTask
\* a DeleteTask that goes on without the result of s.repo.GetByID
DeleteTaskBeginUnchecked(c, id) ==
    /\ Free(c)
    /\ quota.delete > 0 /\ quota.stop > 0
    /\ quota' = [quota EXCEPT !.delete = @ - 1, !.stop = @ - 1]
    /\ th' = [th EXCEPT ![c] = [IdleThread EXCEPT !.pc = "d_ctx", !.id = id]]
    /\ hist' = [hist EXCEPT !.delCalled = @ \cup {id},
                            !.delCount = @ + 1,
                            !.delLast = id]
    /\ UNCHANGED <<now, store, contexts, tctx, cancelFired, wg, exec, nextID, rd, sd, mf, aux, mem, lk>>

\* lines 237-240: s.repo.GetByID(taskID)
DeleteTaskBegin(c, id) ==
    /\ Free(c)
    /\ quota.delete > 0 /\ quota.stop > 0
    /\ quota' = [quota EXCEPT !.delete = @ - 1, !.stop = @ - 1]
    /\ th' = IF Loaded(id)
             THEN [th EXCEPT ![c] = [IdleThread EXCEPT !.pc = "d_ctx", !.id = id]]
             ELSE th
    /\ hist' = [hist EXCEPT !.delCalled = @ \cup {id},
                            !.delAfterCreate = @ \cup ({id} \cap DOMAIN hist.created),
                            !.delCount = @ + 1,
                            !.delLast = id,
                            !.delNotFound = IF Loaded(id) THEN @ ELSE @ \cup {id}]
    /\ UNCHANGED <<now, store, contexts, tctx, cancelFired, wg, exec, nextID, rd, sd, mf, aux, mem, lk>>

\* line 242: s.loadTaskContext(taskID)
DeleteTaskLoadContext(c) ==
    /\ th[c].pc = "d_ctx"
    /\ th' = [th EXCEPT ![c].pc = IF th[c].id \in contexts THEN "d_cancel" ELSE "d_load"]
    /\ UNCHANGED <<now, store, contexts, tctx, cancelFired, wg, exec, nextID, rd, sd, mf, aux, mem, lk, quota, hist>>

\* line 243: taskContext.Cancel()
DeleteTaskCancel(c) ==
    /\ th[c].pc = "d_cancel"
    /\ cancelFired' = cancelFired \cup {th[c].id}
    /\ exec' = CancelWake(exec, th[c].id)
    /\ th' = [th EXCEPT ![c].pc = "d_unreg"]
    /\ UNCHANGED <<now, store, contexts, tctx, wg, nextID, rd, sd, mf, aux, mem, lk, quota, hist>>

\* line 244: s.contexts.Delete(taskID)
DeleteTaskUnregister(c) ==
    /\ th[c].pc = "d_unreg"
    /\ contexts' = contexts \ {th[c].id}
    /\ th' = [th EXCEPT ![c].pc = "d_load"]
    /\ UNCHANGED <<now, store, tctx, cancelFired, wg, exec, nextID, rd, sd, mf, aux, mem, lk, quota, hist>>

\* lines 247, 68-70: s.repo.Delete up to its Load
DeleteTaskRepoLoad(c) ==
    /\ th[c].pc = "d_load"
    /\ th' = IF Loaded(th[c].id) THEN [th EXCEPT ![c].pc = "d_del"]
                                 ELSE [th EXCEPT ![c] = IdleThread]
    /\ UNCHANGED <<now, store, contexts, tctx, cancelFired, wg, exec, nextID, rd, sd, mf, aux, mem, lk, quota, hist>>

\* a delete that puts the task back as it was created instead of removing it
DeleteTaskRepoRestore(c) ==
    /\ th[c].pc = "d_del"
    /\ store' = IF th[c].id \in DOMAIN hist.created
                THEN Put(store, th[c].id, hist.created[th[c].id])
                ELSE store
    /\ hist' = [hist EXCEPT !.delOk = @ \cup {th[c].id}]
    /\ th' = [th EXCEPT ![c] = IdleThread]
    /\ UNCHANGED <<now, contexts, tctx, cancelFired, wg, exec, nextID, rd, sd, mf, aux, mem, lk, quota>>

\* a delete that empties the store
DeleteTaskRepoClear(c) ==
    /\ th[c].pc = "d_del"
    /\ store' = EmptyMap
    /\ hist' = [hist EXCEPT !.delOk = @ \cup {th[c].id},
                            !.delEarly = IF th[c].id \in hist.finalized THEN @ ELSE @ \cup {th[c].id}]
    /\ th' = [th EXCEPT ![c] = IdleThread]
    /\ UNCHANGED <<now, contexts, tctx, cancelFired, wg, exec, nextID, rd, sd, mf, aux, mem, lk, quota>>

\* lines 72-73, 251: r.store.Delete(id), return nil
DeleteTaskRepoDelete(c) ==
    /\ th[c].pc = "d_del"
    /\ store' = Remove(store, th[c].id)
    /\ hist' = [hist EXCEPT !.delOk = @ \cup {th[c].id},
                            !.delEarly = IF th[c].id \in hist.finalized THEN @ ELSE @ \cup {th[c].id}]
    /\ th' = [th EXCEPT ![c] = IdleThread]
    /\ UNCHANGED <<now, contexts, tctx, cancelFired, wg, exec, nextID, rd, sd, mf, aux, mem, lk, quota>>

\* the keys a Range over the store or the registry can meet before it ends
Keys == 1..(nextID + quota.create)

\* --------------------------------------------------------------- Shutdown
\* line 347: s.contexts.Range begins
ShutdownBegin ==
    /\ sd.pc = "idle"
    /\ quota.shutdown > 0 /\ quota.stop > 0
    /\ quota' = [quota EXCEPT !.shutdown = @ - 1, !.stop = @ - 1]
    /\ sd' = [sd EXCEPT !.pc = IF Keys = {} THEN "spawn" ELSE "range", !.rem = Keys]
    /\ hist' = [hist EXCEPT !.sdLaunched = {id \in Ids : exec[id].pc # "idle"},
                            !.sdLive = {id \in contexts : ~IsFinished(tctx[id])}]
    /\ UNCHANGED <<now, store, contexts, tctx, cancelFired, wg, exec, nextID, th, rd, mf, aux, mem, lk>>

\* lines 347-353: Range visits one key: an unfinished context is cancelled
ShutdownVisit(k) ==
    /\ sd.pc = "range"
    /\ k \in sd.rem
    /\ IF k \in contexts /\ ~IsFinished(tctx[k])
       THEN cancelFired' = cancelFired \cup {k} /\ exec' = CancelWake(exec, k)
       ELSE UNCHANGED <<cancelFired, exec>>
    /\ sd' = [sd EXCEPT !.rem = @ \ {k},
                        !.pc = IF sd.rem = {k} THEN "spawn" ELSE "range"]
    /\ UNCHANGED <<now, store, contexts, tctx, wg, nextID, th, rd, mf, aux, mem, lk, quota, hist>>

\* lines 355-363: the wg.Wait goroutine is started, the shutdown timer is armed
ShutdownSpawn ==
    /\ sd.pc = "spawn"
    /\ sd' = [sd EXCEPT !.waiter = "wait", !.pc = "select"]
    /\ UNCHANGED <<now, store, contexts, tctx, cancelFired, wg, exec, nextID, th, rd, mf, aux, mem, lk, quota, hist>>

\* lines 365-372: the select is evaluated; with nothing ready the goroutine parks
ShutdownSelect ==
    /\ sd.pc = "select"
    /\ LET ready == (IF sd.expired THEN {"timeout"} ELSE {}) \cup (IF sd.done THEN {"ok"} ELSE {})
       IN IF ready = {}
          THEN sd' = [sd EXCEPT !.pc = "parked"]
          ELSE \E r \in ready : sd' = [sd EXCEPT !.pc = "returned", !.result = r]
    /\ UNCHANGED <<now, store, contexts, tctx, cancelFired, wg, exec, nextID, th, rd, mf, aux, mem, lk, quota, hist>>

\* a goroutine blocked in Shutdown's select returns with the first event
ShutdownWake(s, r) ==
    IF s.pc = "parked" THEN [s EXCEPT !.pc = "returned", !.result = r] ELSE s

\* shutdownCtx.Done(): the caller's deadline or the shutdown timer
ShutdownExpire ==
    /\ sd.pc \in {"range", "spawn", "select", "parked"}
    /\ ~sd.expired
    /\ sd' = ShutdownWake([sd EXCEPT !.expired = TRUE], "timeout")
    /\ hist' = [hist EXCEPT !.sdLate = \E id \in hist.sdLaunched : Running(id)]
    /\ UNCHANGED <<now, store, contexts, tctx, cancelFired, wg, exec, nextID, th, rd, mf, aux, mem, lk, quota>>

\* line 357: s.wg.Wait() returns when the counter is zero
WaiterWake ==
    /\ sd.waiter = "wait"
    /\ sd.pc # "returned"
    /\ wg = 0
    /\ sd' = [sd EXCEPT !.waiter = "close"]
    /\ UNCHANGED <<now, store, contexts, tctx, cancelFired, wg, exec, nextID, th, rd, mf, aux, mem, lk, quota, hist>>

\* line 358: close(done)
WaiterClose ==
    /\ sd.waiter = "close"
    /\ sd.pc # "returned"
    /\ sd' = ShutdownWake([sd EXCEPT !.waiter = "end", !.done = TRUE], "ok")
    /\ UNCHANGED <<now, store, contexts, tctx, cancelFired, wg, exec, nextID, th, rd, mf, aux, mem, lk, quota, hist>>

\* ---------------------------------------------------------------- GetTask
\* lines 227-230, 39-49: s.repo.GetByID(taskID); an error is returned at once
GetTask(id) ==
    /\ rd.pc = "idle"
    /\ quota.read > 0
    /\ quota' = [quota EXCEPT !.read = @ - 1]
    /\ rd' = [IdleReader EXCEPT !.pc = "u_ctx", !.op = "GetTask", !.scope = {id},
                                !.tasks = IF Loaded(id) THEN <<copyTask(store[id])>> ELSE <<>>,
                                !.idx = 1,
                                !.known = DOMAIN hist.created \cap {id},
                                !.delSnap = hist.delOk \cap {id},
                                !.fresh = /\ id \in DOMAIN hist.created
                                          /\ id \notin hist.finalized
                                          /\ id \notin hist.delCalled]
    /\ UNCHANGED <<now, store, contexts, tctx, cancelFired, wg, exec, nextID, th, sd, mf, aux, mem, lk, hist>>

\* -------------------------------------------------------------- ListTasks
\* lines 255, 76-79: s.repo.GetAll begins its Range
ListTasks ==
    /\ rd.pc = "idle"
    /\ quota.read > 0
    /\ quota' = [quota EXCEPT !.read = @ - 1]
    /\ rd' = [IdleReader EXCEPT !.pc = IF Keys = {} THEN "u_ctx" ELSE "l_range",
                                !.op = "ListTasks",
                                !.scope = Keys, !.rem = Keys, !.idx = 1,
                                !.known = DOMAIN hist.created,
                                !.delSnap = hist.delOk]
    /\ UNCHANGED <<now, store, contexts, tctx, cancelFired, wg, exec, nextID, th, sd, mf, aux, mem, lk, hist>>

\* lines 79-84: Range visits one key and appends a copy of its value
GetAllVisit(k) ==
    /\ rd.pc = "l_range"
    /\ k \in rd.rem
    /\ rd' = [rd EXCEPT !.tasks = IF Loaded(k) THEN Append(@, copyTask(store[k])) ELSE @,
                        !.rem = @ \ {k},
                        !.pc = IF rd.rem = {k} THEN "u_ctx" ELSE "l_range"]
    /\ UNCHANGED <<now, store, contexts, tctx, cancelFired, wg, exec, nextID, th, sd, mf, aux, mem, lk, quota, hist>>

\* ---------------------------------------------- updateTaskProcessingTime
\* lines 277-281: IsProcessing and s.loadTaskContext for the next returned task
updateTaskProcessingTimeLoad ==
    /\ rd.pc = "u_ctx"
    /\ rd.idx <= Len(rd.tasks)
    /\ LET task == rd.tasks[rd.idx]
       IN rd' = IF IsProcessing(task) /\ task.ID \in contexts
                THEN [rd EXCEPT !.pc = "u_time"]
                ELSE [rd EXCEPT !.idx = @ + 1]
    /\ UNCHANGED <<now, store, contexts, tctx, cancelFired, wg, exec, nextID, th, sd, mf, aux, mem, lk, quota, hist>>

\* an overlay that does not ask whether the context is finished
updateTaskProcessingTimeSinceAlways ==
    /\ rd.pc = "u_time"
    /\ LET task == rd.tasks[rd.idx]
           tc == tctx[task.ID]
       IN rd' = [rd EXCEPT !.pc = "u_ctx", !.idx = @ + 1,
                           !.tasks[rd.idx].ProcessingTime = Since(tc.Started)]
    /\ UNCHANGED <<now, store, contexts, tctx, cancelFired, wg, exec, nextID, th, sd, mf, aux, mem, lk, quota, hist>>

\* lines 281-282: taskContext.IsFinished(), time.Since(taskContext.Started)
updateTaskProcessingTimeSince ==
    /\ rd.pc = "u_time"
    /\ LET task == rd.tasks[rd.idx]
           tc == tctx[task.ID]
       IN rd' = [rd EXCEPT !.pc = "u_ctx", !.idx = @ + 1,
                           !.tasks[rd.idx].ProcessingTime =
                               IF ~IsFinished(tc) THEN Since(tc.Started) ELSE @]
    /\ UNCHANGED <<now, store, contexts, tctx, cancelFired, wg, exec, nextID, th, sd, mf, aux, mem, lk, quota, hist>>

\* ------------------------------------------------- what a read returns
\* GetTask or ListTasks is about to return rd.tasks
Returning == rd.pc = "u_ctx" /\ rd.idx > Len(rd.tasks)

\* the entry of id in the returned tasks, if any
Found(tasks, id) == {i \in 1..Len(tasks) : tasks[i].ID = id}
Entry(tasks, id) == tasks[CHOOSE i \in Found(tasks, id) : TRUE]

\* the read that is returning asked for id and got a task for it
Shows(id) == Returning /\ id \in rd.scope /\ Found(rd.tasks, id) # {}
Shown(id) == Entry(rd.tasks, id)

\* lines 233, 264: GetTask or ListTasks returns
ReadReturn ==
    /\ Returning
    /\ hist' = [hist EXCEPT
                  !.seenTerminal = @ \cup {id \in Ids : Shows(id) /\ ~IsProcessing(Shown(id))},
                  !.lastPt = [id \in Ids |->
                                IF Shows(id) /\ IsProcessing(Shown(id))
                                THEN Shown(id).ProcessingTime
                                ELSE @[id]]]
    /\ rd' = IdleReader
    /\ UNCHANGED <<now, store, contexts, tctx, cancelFired, wg, exec, nextID, th, sd, mf, aux, mem, lk, quota>>

\* ------------------------------------------------------------------ clock
\* the clock is kept while some task has a context and has not been executed
\* to the end: nothing else reads it
ClockRuns == \E id \in DOMAIN tctx : exec[id].pc # "exited"

\* one unit passes: every running ticker has ticked, the armed shutdown
\* timer has fired before; a parked executor is woken by the tick or, when
\* its context's deadline is reached, by the tick or the deadline
AdvanceClock ==
    /\ now < MaxTime
    /\ ClockRuns
    /\ ~(sd.pc \in {"select", "parked"} /\ ~sd.expired)
    /\ now' = now + 1
    /\ \E wake \in [Ids -> {"on_tick", "on_cancel"}] :
         /\ \A id \in Ids :
              wake[id] = "on_cancel" =>
                 /\ exec[id].pc = "parked"
                 /\ CtxDoneAt(id, now + 1)
         /\ exec' = [id \in Ids |->
                       IF exec[id].pc = "parked"
                       THEN [exec[id] EXCEPT !.pc = wake[id]]
                       ELSE exec[id]]
    /\ UNCHANGED <<store, contexts, tctx, cancelFired, wg, nextID, th, rd, sd, mf, aux, mem, lk, quota, hist>>

\* one unit passes, for as long as some launched or registered task has not
\* been executed to the end and the deadline of its context lies ahead: from
\* the deadline on ctx.Done() is ready whatever the time
AdvanceClockLive ==
    /\ \E id \in DOMAIN tctx :
          exec[id].pc # "exited" /\ now < tctx[id].Started + defaultTimeToProcessTask
    /\ now' = now + 1
    /\ \E wake \in [Ids -> {"on_tick", "on_cancel"}] :
         /\ \A id \in Ids :
              wake[id] = "on_cancel" =>
                 /\ exec[id].pc = "parked"
                 /\ CtxDoneAt(id, now + 1)
         /\ exec' = [id \in Ids |->
                       IF exec[id].pc = "parked"
                       THEN [exec[id] EXCEPT !.pc = wake[id]]
                       ELSE exec[id]]
    /\ UNCHANGED <<store, contexts, tctx, cancelFired, wg, nextID, th, rd, sd, mf, aux, mem, lk, quota, hist>>

\* the first unit passes while no executor has been launched
AdvanceClockIdle ==
    /\ now = 0
    /\ \A id \in Ids : exec[id].pc = "idle"
    /\ now' = now + 1
    /\ UNCHANGED <<store, contexts, tctx, cancelFired, wg, exec, nextID, th, rd, sd, mf, aux, mem, lk, quota, hist>>

\* ----------------------------------------------------------- markFinished
\* lines 178-187: one call of markFinished on a context of its own; the
\* calls hold tc.mu for their whole body, so concurrent calls run in some order
MarkFinishedCall(status) ==
    /\ Len(mf.calls) < MaxMarks
    /\ mf' = [tc |-> markFinished(mf.tc, status),
              calls |-> Append(mf.calls, status),
              closes |-> mf.closes + closesDone(mf.tc)]
    /\ UNCHANGED <<now, store, contexts, tctx, cancelFired, wg, exec, nextID, th, rd, sd, aux, mem, lk, quota, hist>>

\* ------------------------------------------------------------ WaitForTask
\* lines 376-379: s.loadTaskContext(taskID); without a context the error is returned
WaitForTaskBegin(id) ==
    /\ aux.pc = "idle"
    /\ quota.aux > 0
    /\ quota' = [quota EXCEPT !.aux = @ - 1]
    /\ aux' = [IdleAux EXCEPT !.op = "WaitForTask", !.id = id,
                              !.registered = id \in contexts,
                              !.pc = IF id \in contexts THEN "w_select" ELSE "returned",
                              !.result = IF id \in contexts THEN "" ELSE "notfound"]
    /\ UNCHANGED <<now, store, contexts, tctx, cancelFired, wg, exec, nextID, th, rd, sd, mf, mem, lk, hist>>

\* a select with a default case: it returns nil when nothing is ready
WaitForTaskSelectDefault ==
    /\ aux.pc = "w_select"
    /\ LET ready == (IF aux.expired THEN {"ctxerr"} ELSE {})
                    \cup (IF IsFinished(tctx[aux.id]) THEN {"ok"} ELSE {})
       IN IF ready = {}
          THEN aux' = [aux EXCEPT !.pc = "returned", !.result = "ok"]
          ELSE \E r \in ready : aux' = [aux EXCEPT !.pc = "returned", !.result = r]
    /\ UNCHANGED <<now, store, contexts, tctx, cancelFired, wg, exec, nextID, th, rd, sd, mf, mem, lk, quota, hist>>

\* lines 381-386: the select is evaluated; with nothing ready the goroutine parks
WaitForTaskSelect ==
    /\ aux.pc = "w_select"
    /\ LET ready == (IF aux.expired THEN {"ctxerr"} ELSE {})
                    \cup (IF IsFinished(tctx[aux.id]) THEN {"ok"} ELSE {})
       IN IF ready = {}
          THEN aux' = [aux EXCEPT !.pc = "w_parked", !.blocked = TRUE]
          ELSE \E r \in ready : aux' = [aux EXCEPT !.pc = "returned", !.result = r]
    /\ UNCHANGED <<now, store, contexts, tctx, cancelFired, wg, exec, nextID, th, rd, sd, mf, mem, lk, quota, hist>>

\* line 382: ctx.Done() of the caller's ctx: its deadline or its cancellation
WaitForTaskExpire ==
    /\ aux.pc \in {"w_select", "w_parked"}
    /\ ~aux.expired
    /\ aux' = IF aux.pc = "w_parked"
              THEN [aux EXCEPT !.expired = TRUE, !.pc = "returned", !.result = "ctxerr"]
              ELSE [aux EXCEPT !.expired = TRUE]
    /\ UNCHANGED <<now, store, contexts, tctx, cancelFired, wg, exec, nextID, th, rd, sd, mf, mem, lk, quota, hist>>

\* ---------------------------------------------------------- GetTaskStatus
\* a GetTaskStatus that asks the repository: the stored status, if any
GetTaskStatusFromStore(id) ==
    /\ aux.pc = "idle"
    /\ quota.aux > 0
    /\ quota' = [quota EXCEPT !.aux = @ - 1]
    /\ aux' = [IdleAux EXCEPT !.op = "GetTaskStatus", !.id = id,
                              !.registered = id \in contexts,
                              !.pc = "returned",
                              !.result = IF Loaded(id) THEN "found" ELSE "notfound",
                              !.status = IF Loaded(id) THEN store[id].Status ELSE ""]
    /\ UNCHANGED <<now, store, contexts, tctx, cancelFired, wg, exec, nextID, th, rd, sd, mf, mem, lk, hist>>

\* lines 390, 396: s.loadTaskContext(taskID); without a context ("", false)
GetTaskStatusLoad(id) ==
    /\ aux.pc = "idle"
    /\ quota.aux > 0
    /\ quota' = [quota EXCEPT !.aux = @ - 1]
    /\ aux' = [IdleAux EXCEPT !.op = "GetTaskStatus", !.id = id,
                              !.registered = id \in contexts,
                              !.pc = IF id \in contexts THEN "s_read" ELSE "returned",
                              !.result = IF id \in contexts THEN "" ELSE "notfound"]
    /\ UNCHANGED <<now, store, contexts, tctx, cancelFired, wg, exec, nextID, th, rd, sd, mf, mem, lk, hist>>

\* lines 391-394: taskContext.Status under the read lock; (status, true)
GetTaskStatusRead ==
    /\ aux.pc = "s_read"
    /\ aux' = [aux EXCEPT !.pc = "returned", !.result = "found", !.status = tctx[aux.id].Status]
    /\ UNCHANGED <<now, store, contexts, tctx, cancelFired, wg, exec, nextID, th, rd, sd, mf, mem, lk, quota, hist>>

\* ------------------------------------------- the repository called directly
\* lines 21-28: Create(task) for a task of the caller's own, up to its Load
RepoCreateLoad(c, id, name) ==
    /\ Free(c)
    /\ quota.create > 0
    /\ quota' = [quota EXCEPT !.create = @ - 1]
    /\ th' = [th EXCEPT ![c] = IF Loaded(id) THEN IdleThread
                               ELSE [IdleThread EXCEPT !.pc = "rc_store", !.id = id, !.name = name,
                                                       !.task = NewTask(id, name)]]
    /\ UNCHANGED <<now, store, contexts, tctx, cancelFired, wg, exec, nextID, rd, sd, mf, aux, mem, lk, hist>>

\* lines 30-35: Create stamps CreatedAt, stores a copy and returns nil
RepoCreateStore(c) ==
    /\ th[c].pc = "rc_store"
    /\ LET task == [th[c].task EXCEPT !.CreatedAt = now]
       IN store' = Put(store, task.ID, copyTask(task))
    /\ hist' = [hist EXCEPT !.repoCreated[th[c].id] = @ + 1]
    /\ th' = [th EXCEPT ![c] = IdleThread]
    /\ UNCHANGED <<now, contexts, tctx, cancelFired, wg, exec, nextID, rd, sd, mf, aux, mem, lk, quota>>

\* ---------------------------------------- tasks as pointers to Task objects
\* the Task objects the store holds
StoredRefs == {mem.repo[id] : id \in DOMAIN mem.repo}

\* what reads of the store return: the contents of the stored objects
StoredTasks == [id \in DOMAIN mem.repo |-> mem.heap[mem.repo[id]]]

\* NewTask, then Create(task) or CreateTask: the caller's object a is stamped,
\* a copy of it is stored, and the caller keeps a
MemCreate(id, name) ==
    /\ Len(mem.heap) + 2 <= MaxObjects
    /\ LET a == Len(mem.heap) + 1
           h0 == Append(mem.heap, NewTask(id, name))
       IN IF id \in DOMAIN mem.repo
          THEN mem' = [mem EXCEPT !.heap = h0, !.held = @ \cup {a}]
          ELSE LET c == copyTaskRef([h0 EXCEPT ![a].CreatedAt = now], a)
               IN mem' = [heap |-> c.heap, repo |-> Put(mem.repo, id, c.ref),
                          held |-> mem.held \cup {a}]
    /\ UNCHANGED <<now, store, contexts, tctx, cancelFired, wg, exec, nextID, th, rd, sd, mf, aux, lk, quota, hist>>

\* GetByID(id), GetTask(id): the caller receives a copy of the stored object
MemGetByID(id) ==
    /\ id \in DOMAIN mem.repo
    /\ Len(mem.heap) + 1 <= MaxObjects
    /\ LET c == copyTaskRef(mem.heap, mem.repo[id])
       IN mem' = [mem EXCEPT !.heap = c.heap, !.held = @ \cup {c.ref}]
    /\ UNCHANGED <<now, store, contexts, tctx, cancelFired, wg, exec, nextID, th, rd, sd, mf, aux, lk, quota, hist>>

\* the copies Range appends, one per stored object
RECURSIVE GetAllCopies(_, _, _)
GetAllCopies(h, ids, refs) ==
    IF ids = {} THEN [heap |-> h, refs |-> refs]
    ELSE LET id == CHOOSE x \in ids : TRUE
             c == copyTaskRef(h, mem.repo[id])
         IN GetAllCopies(c.heap, ids \ {id}, refs \cup {c.ref})

\* GetAll(), ListTasks(): the caller receives a copy of every stored object
MemGetAll ==
    /\ DOMAIN mem.repo # {}
    /\ Len(mem.heap) + Cardinality(DOMAIN mem.repo) <= MaxObjects
    /\ LET r == GetAllCopies(mem.heap, DOMAIN mem.repo, {})
       IN mem' = [mem EXCEPT !.heap = r.heap, !.held = @ \cup r.refs]
    /\ UNCHANGED <<now, store, contexts, tctx, cancelFired, wg, exec, nextID, th, rd, sd, mf, aux, lk, quota, hist>>

\* Update(task) with an object the caller holds: a copy of it is stored
MemUpdate(a) ==
    /\ a \in mem.held
    /\ mem.heap[a].ID \in DOMAIN mem.repo
    /\ Len(mem.heap) + 1 <= MaxObjects
    /\ LET c == copyTaskRef(mem.heap, a)
       IN mem' = [mem EXCEPT !.heap = c.heap, !.repo = Put(@, mem.heap[a].ID, c.ref)]
    /\ UNCHANGED <<now, store, contexts, tctx, cancelFired, wg, exec, nextID, th, rd, sd, mf, aux, lk, quota, hist>>

\* the caller writes a field of an object it holds
MemMutate(a) ==
    /\ a \in mem.held
    /\ \/ mem' = [mem EXCEPT !.heap[a].Name = "Mutated"]
       \/ mem' = [mem EXCEPT !.heap[a].Status = StatusFailed]
    /\ mem' # mem
    /\ UNCHANGED <<now, store, contexts, tctx, cancelFired, wg, exec, nextID, th, rd, sd, mf, aux, lk, quota, hist>>

\* ------------------------------------------- the mutex of a TaskContext
\* tc.mu.RLock(): waits while a writer holds the mutex or waits for it
LkRLock(u, from, to) ==
    /\ lk.pc[u] = from
    /\ lk.w = "" /\ lk.pend = {}
    /\ lk' = [lk EXCEPT !.pc[u] = to, !.r = @ \cup {u}]
    /\ UNCHANGED <<now, store, contexts, tctx, cancelFired, wg, exec, nextID, th, rd, sd, mf, aux, mem, quota, hist>>

\* tc.mu.RUnlock()
LkRUnlock(u, from, to) ==
    /\ lk.pc[u] = from
    /\ lk' = [lk EXCEPT !.pc[u] = to, !.r = @ \ {u}]
    /\ UNCHANGED <<now, store, contexts, tctx, cancelFired, wg, exec, nextID, th, rd, sd, mf, aux, mem, quota, hist>>

\* lines 202-207: CreateTask stores the record
LkCreateStore ==
    /\ lk.pc["create"] = "c_store"
    /\ lk' = [lk EXCEPT !.pc["create"] = "c_ctx", !.stored = TRUE]
    /\ UNCHANGED <<now, store, contexts, tctx, cancelFired, wg, exec, nextID, th, rd, sd, mf, aux, mem, quota, hist>>

\* lines 209-218: the TaskContext is built and stored in s.contexts
LkCreateContext ==
    /\ lk.pc["create"] = "c_ctx"
    /\ lk' = [lk EXCEPT !.pc["create"] = "c_add", !.registered = TRUE]
    /\ UNCHANGED <<now, store, contexts, tctx, cancelFired, wg, exec, nextID, th, rd, sd, mf, aux, mem, quota, hist>>

\* line 219: s.wg.Add(1)
LkCreateAdd ==
    /\ lk.pc["create"] = "c_add"
    /\ lk' = [lk EXCEPT !.pc["create"] = "c_go", !.wgc = @ + 1]
    /\ UNCHANGED <<now, store, contexts, tctx, cancelFired, wg, exec, nextID, th, rd, sd, mf, aux, mem, quota, hist>>

\* lines 221-223: go s.executeTask(...), return
LkCreateGo ==
    /\ lk.pc["create"] = "c_go"
    /\ lk' = [lk EXCEPT !.pc["create"] = "returned", !.pc["exec"] = "select"]
    /\ UNCHANGED <<now, store, contexts, tctx, cancelFired, wg, exec, nextID, th, rd, sd, mf, aux, mem, quota, hist>>

\* lines 306-329: the select ends with a tick that completes the workload or
\* with ctx.Done(); the status to finalize with is fixed
LkExecSelect ==
    /\ lk.pc["exec"] = "select"
    /\ \E st \in {StatusDone, StatusFailed} :
          /\ st = StatusFailed => lk.cancelled
          /\ lk' = [lk EXCEPT !.pc["exec"] = "fin", !.final = st]
    /\ UNCHANGED <<now, store, contexts, tctx, cancelFired, wg, exec, nextID, th, rd, sd, mf, aux, mem, quota, hist>>

\* lines 335-342: finalizeTask and its repo.Update
LkExecFinalize ==
    /\ lk.pc["exec"] = "fin"
    /\ lk' = [lk EXCEPT !.pc["exec"] = "m_lock"]
    /\ UNCHANGED <<now, store, contexts, tctx, cancelFired, wg, exec, nextID, th, rd, sd, mf, aux, mem, quota, hist>>

\* line 179: tc.mu.Lock() is called
LkMarkLock ==
    /\ lk.pc["exec"] = "m_lock"
    /\ lk' = [lk EXCEPT !.pc["exec"] = "m_wait", !.pend = @ \cup {"exec"}]
    /\ UNCHANGED <<now, store, contexts, tctx, cancelFired, wg, exec, nextID, th, rd, sd, mf, aux, mem, quota, hist>>

\* line 179: tc.mu.Lock() returns when no goroutine holds the mutex
LkMarkAcquire ==
    /\ lk.pc["exec"] = "m_wait"
    /\ lk.w = "" /\ lk.r = {}
    /\ lk' = [lk EXCEPT !.pc["exec"] = "m_set", !.pend = @ \ {"exec"}, !.w = "exec"]
    /\ UNCHANGED <<now, store, contexts, tctx, cancelFired, wg, exec, nextID, th, rd, sd, mf, aux, mem, quota, hist>>

\* line 181: tc.Status = status
LkMarkSet ==
    /\ lk.pc["exec"] = "m_set"
    /\ lk' = [lk EXCEPT !.pc["exec"] = "m_close", !.status = lk.final]
    /\ UNCHANGED <<now, store, contexts, tctx, cancelFired, wg, exec, nextID, th, rd, sd, mf, aux, mem, quota, hist>>

\* lines 182-186: close(tc.Done) unless closed
LkMarkClose ==
    /\ lk.pc["exec"] = "m_close"
    /\ lk' = [lk EXCEPT !.pc["exec"] = "m_unlock", !.done = TRUE]
    /\ UNCHANGED <<now, store, contexts, tctx, cancelFired, wg, exec, nextID, th, rd, sd, mf, aux, mem, quota, hist>>

\* a markFinished that returns with the mutex still locked
LkMarkReturnLocked ==
    /\ lk.pc["exec"] = "m_unlock"
    /\ lk' = [lk EXCEPT !.pc["exec"] = IF lk.again THEN "d_del" ELSE "d_wg"]
    /\ UNCHANGED <<now, store, contexts, tctx, cancelFired, wg, exec, nextID, th, rd, sd, mf, aux, mem, quota, hist>>

\* line 180: the deferred tc.mu.Unlock(); markFinished returns
LkMarkUnlock ==
    /\ lk.pc["exec"] = "m_unlock"
    /\ lk' = [lk EXCEPT !.pc["exec"] = IF lk.again THEN "d_del" ELSE "d_wg", !.w = ""]
    /\ UNCHANGED <<now, store, contexts, tctx, cancelFired, wg, exec, nextID, th, rd, sd, mf, aux, mem, quota, hist>>

\* line 288: s.wg.Done() in the deferred function
LkExecWgDone ==
    /\ lk.pc["exec"] = "d_wg"
    /\ lk' = [lk EXCEPT !.pc["exec"] = "i_rlock", !.wgc = @ - 1]
    /\ UNCHANGED <<now, store, contexts, tctx, cancelFired, wg, exec, nextID, th, rd, sd, mf, aux, mem, quota, hist>>

\* line 168: IsFinished takes the read lock
LkIsFinishedRLock(u) == LkRLock(u, "i_rlock", "i_read")

\* lines 170-175: IsFinished looks at tc.Done
LkIsFinishedRead(u) ==
    /\ lk.pc[u] = "i_read"
    /\ lk' = [lk EXCEPT !.pc[u] = "i_runlock", !.seen[u] = lk.done]
    /\ UNCHANGED <<now, store, contexts, tctx, cancelFired, wg, exec, nextID, th, rd, sd, mf, aux, mem, quota, hist>>

\* line 169: the deferred tc.mu.RUnlock(); IsFinished returns to its caller,
\* the deferred function of executeTask (289-291), Shutdown's Range (348) or
\* updateTaskProcessingTime (281)
LkIsFinishedRUnlock(u) ==
    /\ lk.pc[u] = "i_runlock"
    /\ lk' = [lk EXCEPT !.r = @ \ {u},
                        !.pc[u] = CASE u = "exec" -> IF lk.seen[u] THEN "d_del" ELSE "m_lock"
                                    [] u = "shutdown" -> "s_cancel"
                                    [] OTHER -> "returned",
                        !.again = IF u = "exec" /\ ~lk.seen[u] THEN TRUE ELSE @,
                        !.final = IF u = "exec" /\ ~lk.seen[u] THEN StatusFailed ELSE @]
    /\ UNCHANGED <<now, store, contexts, tctx, cancelFired, wg, exec, nextID, th, rd, sd, mf, aux, mem, quota, hist>>

\* line 292: s.contexts.Delete(task.ID); executeTask returns
LkExecDelete ==
    /\ lk.pc["exec"] = "d_del"
    /\ lk' = [lk EXCEPT !.pc["exec"] = "returned", !.registered = FALSE]
    /\ UNCHANGED <<now, store, contexts, tctx, cancelFired, wg, exec, nextID, th, rd, sd, mf, aux, mem, quota, hist>>

\* line 390: GetTaskStatus looks the context up
LkStatusLoad ==
    /\ lk.pc["status"] = "load"
    /\ lk' = [lk EXCEPT !.pc["status"] = IF lk.registered THEN "g_rlock" ELSE "returned"]
    /\ UNCHANGED <<now, store, contexts, tctx, cancelFired, wg, exec, nextID, th, rd, sd, mf, aux, mem, quota, hist>>

\* line 391: taskContext.mu.RLock()
LkStatusRLock == LkRLock("status", "g_rlock", "g_read")

\* line 392: status := taskContext.Status
LkStatusRead ==
    /\ lk.pc["status"] = "g_read"
    /\ lk' = [lk EXCEPT !.pc["status"] = "g_runlock"]
    /\ UNCHANGED <<now, store, contexts, tctx, cancelFired, wg, exec, nextID, th, rd, sd, mf, aux, mem, quota, hist>>

\* lines 393-394: taskContext.mu.RUnlock(), return
LkStatusRUnlock == LkRUnlock("status", "g_runlock", "returned")

\* lines 376-379: WaitForTask looks the context up
LkWaitLoad ==
    /\ lk.pc["wait"] = "load"
    /\ lk' = [lk EXCEPT !.pc["wait"] = IF lk.registered THEN "w_select" ELSE "returned"]
    /\ UNCHANGED <<now, store, contexts, tctx, cancelFired, wg, exec, nextID, th, rd, sd, mf, aux, mem, quota, hist>>

\* lines 381-386: the select of WaitForTask, called with a context that is
\* never done: it ends when tc.Done is closed
LkWaitDone ==
    /\ lk.pc["wait"] = "w_select"
    /\ lk.done
    /\ lk' = [lk EXCEPT !.pc["wait"] = "returned"]
    /\ UNCHANGED <<now, store, contexts, tctx, cancelFired, wg, exec, nextID, th, rd, sd, mf, aux, mem, quota, hist>>

\* lines 347-348: Shutdown's Range meets the context, or none
LkShutdownRange ==
    /\ lk.pc["shutdown"] = "range"
    /\ lk' = [lk EXCEPT !.pc["shutdown"] = IF lk.registered THEN "i_rlock" ELSE "s_wait"]
    /\ UNCHANGED <<now, store, contexts, tctx, cancelFired, wg, exec, nextID, th, rd, sd, mf, aux, mem, quota, hist>>

\* lines 348-351: taskContext.Cancel() unless IsFinished
LkShutdownCancel ==
    /\ lk.pc["shutdown"] = "s_cancel"
    /\ lk' = [lk EXCEPT !.pc["shutdown"] = "s_wait",
                        !.cancelled = IF lk.seen["shutdown"] THEN @ ELSE TRUE]
    /\ UNCHANGED <<now, store, contexts, tctx, cancelFired, wg, exec, nextID, th, rd, sd, mf, aux, mem, quota, hist>>

\* lines 355-371: s.wg.Wait() returned and done was closed: return nil
LkShutdownDone ==
    /\ lk.pc["shutdown"] = "s_wait"
    /\ lk.wgc = 0
    /\ lk' = [lk EXCEPT !.pc["shutdown"] = "returned"]
    /\ UNCHANGED <<now, store, contexts, tctx, cancelFired, wg, exec, nextID, th, rd, sd, mf, aux, mem, quota, hist>>

\* lines 361-367: shutdownCtx is done after 30 seconds: return the error
LkShutdownTimeout ==
    /\ lk.pc["shutdown"] = "s_wait"
    /\ lk.wgc > 0
    /\ lk' = [lk EXCEPT !.pc["shutdown"] = "returned"]
    /\ UNCHANGED <<now, store, contexts, tctx, cancelFired, wg, exec, nextID, th, rd, sd, mf, aux, mem, quota, hist>>

\* lines 227-230: GetTask reads the record
LkGetByID ==
    /\ lk.pc["get"] = "r_get"
    /\ lk' = [lk EXCEPT !.pc["get"] = IF lk.stored THEN "r_load" ELSE "returned"]
    /\ UNCHANGED <<now, store, contexts, tctx, cancelFired, wg, exec, nextID, th, rd, sd, mf, aux, mem, quota, hist>>

\* lines 277-281: updateTaskProcessingTime looks the context up
LkGetLoad ==
    /\ lk.pc["get"] = "r_load"
    /\ lk' = [lk EXCEPT !.pc["get"] = IF lk.registered THEN "i_rlock" ELSE "returned"]
    /\ UNCHANGED <<now, store, contexts, tctx, cancelFired, wg, exec, nextID, th, rd, sd, mf, aux, mem, quota, hist>>

\* lines 237-240: DeleteTask reads the record
LkDeleteGet ==
    /\ lk.pc["delete"] = "d_get"
    /\ lk' = [lk EXCEPT !.pc["delete"] = IF lk.stored THEN "d_loadctx" ELSE "returned"]
    /\ UNCHANGED <<now, store, contexts, tctx, cancelFired, wg, exec, nextID, th, rd, sd, mf, aux, mem, quota, hist>>

\* line 242: DeleteTask looks the context up
LkDeleteLoad ==
    /\ lk.pc["delete"] = "d_loadctx"
    /\ lk' = [lk EXCEPT !.pc["delete"] = IF lk.registered THEN "d_cancel" ELSE "d_repo"]
    /\ UNCHANGED <<now, store, contexts, tctx, cancelFired, wg, exec, nextID, th, rd, sd, mf, aux, mem, quota, hist>>

\* line 243: taskContext.Cancel()
LkDeleteCancel ==
    /\ lk.pc["delete"] = "d_cancel"
    /\ lk' = [lk EXCEPT !.pc["delete"] = "d_unreg", !.cancelled = TRUE]
    /\ UNCHANGED <<now, store, contexts, tctx, cancelFired, wg, exec, nextID, th, rd, sd, mf, aux, mem, quota, hist>>

\* line 244: s.contexts.Delete(taskID)
LkDeleteUnregister ==
    /\ lk.pc["delete"] = "d_unreg"
    /\ lk' = [lk EXCEPT !.pc["delete"] = "d_repo", !.registered = FALSE]
    /\ UNCHANGED <<now, store, contexts, tctx, cancelFired, wg, exec, nextID, th, rd, sd, mf, aux, mem, quota, hist>>

\* lines 247-251: s.repo.Delete(taskID), return
LkDeleteRepo ==
    /\ lk.pc["delete"] = "d_repo"
    /\ lk' = [lk EXCEPT !.pc["delete"] = "returned", !.stored = FALSE]
    /\ UNCHANGED <<now, store, contexts, tctx, cancelFired, wg, exec, nextID, th, rd, sd, mf, aux, mem, quota, hist>>

\* ------------------------------------------------------------------- Next
Executor ==
    \E id \in Ids :
       \/ ExStart(id) \/ ExSelect(id) \/ ExOnCancel(id) \/ ExOnTick(id)
       \/ ExUpdStore(id) \/ ExFinLoad(id) \/ ExFinStore(id) \/ ExMark(id)
       \/ ExDeferWg(id) \/ ExDeferChk(id) \/ ExDeferDel(id) \/ TickerFire(id)

CreateTask ==
    \E c \in Callers :
       \/ CreateTaskBegin(c) \/ CreateTaskStore(c) \/ CreateTaskContext(c)
       \/ CreateTaskAdd(c) \/ CreateTaskGo(c)

DeleteTask ==
    \E c \in Callers :
       \/ \E id \in 1..nextID : DeleteTaskBegin(c, id)
       \/ DeleteTaskLoadContext(c) \/ DeleteTaskCancel(c) \/ DeleteTaskUnregister(c)
       \/ DeleteTaskRepoLoad(c) \/ DeleteTaskRepoDelete(c)

\* Shutdown up to the end of its Range
ShutdownCancel == ShutdownBegin \/ \E k \in Ids : ShutdownVisit(k)

\* Shutdown from the end of its Range to its return
ShutdownWait ==
    ShutdownSpawn \/ ShutdownSelect \/ ShutdownExpire \/ WaiterWake \/ WaiterClose

Read ==
    \/ \E id \in 1..nextID : GetTask(id)
    \/ ListTasks \/ \E k \in Ids : GetAllVisit(k)
    \/ updateTaskProcessingTimeLoad \/ updateTaskProcessingTimeSince \/ ReadReturn

WaitForTask ==
    (\E id \in Ids : WaitForTaskBegin(id)) \/ WaitForTaskSelect \/ WaitForTaskExpire

GetTaskStatus ==
    (\E id \in Ids : GetTaskStatusLoad(id)) \/ GetTaskStatusRead

\* executeTask while the clock stands: start, select, tick, periodic Update
ExecutorPoll ==
    \E id \in Ids :
       \/ ExStart(id) \/ ExSelect(id) \/ ExOnTick(id) \/ ExUpdStore(id) \/ TickerFire(id)

\* one task: created, executed, read twice, and deleted or cancelled by Shutdown
Init == InitWith([create |-> 1, names |-> {"Alpha"}, delete |-> 1, shutdown |-> 1,
                  stop |-> 1, read |-> 2, aux |-> 0])

Next == Executor \/ CreateTask \/ DeleteTask \/ ShutdownCancel \/ Read \/ AdvanceClock

Spec == Init /\ [][Next]_vars

\* one task: created, executed, deleted, and a whole Shutdown
InitShutdown == InitWith([create |-> 1, names |-> {"Alpha"}, delete |-> 1, shutdown |-> 1,
                          stop |-> 2, read |-> 0, aux |-> 0])

NextShutdown == Executor \/ CreateTask \/ DeleteTask \/ ShutdownCancel \/ ShutdownWait \/ AdvanceClock

SpecShutdown == InitShutdown /\ [][NextShutdown]_vars

\* concurrent CreateTask calls and a read, within the first unit of the clock
InitCreate == InitWith([create |-> MaxTasks, names |-> {"Alpha"}, delete |-> 0, shutdown |-> 0,
                        stop |-> 0, read |-> 1, aux |-> 0])

NextCreate == CreateTask \/ ExecutorPoll \/ Read

SpecCreate == InitCreate /\ [][NextCreate]_vars

\* two tasks created and executed side by side, one DeleteTask, the clock standing
InitPair == InitWith([create |-> 2, names |-> {"Alpha"}, delete |-> 1, shutdown |-> 0,
                      stop |-> 1, read |-> 0, aux |-> 0])

NextPair == Executor \/ CreateTask \/ DeleteTask

SpecPair == InitPair /\ [][NextPair]_vars

\* one task, created, executed, deleted and cancelled by Shutdown, under fair
\* scheduling: every goroutine that can take a step takes one, time passes,
\* tickers fire, and a select that finds ctx.Done() ready again and again
\* takes that case at some time
InitLive == InitWith([create |-> 1, names |-> {"Alpha"}, delete |-> 1, shutdown |-> 1,
                      stop |-> 2, read |-> 0, aux |-> 0])

NextLive == Executor \/ CreateTask \/ DeleteTask \/ ShutdownCancel \/ AdvanceClockLive

FairLive ==
    /\ WF_vars(AdvanceClockLive)
    /\ WF_vars(CreateTask)
    /\ \A id \in Ids :
          /\ WF_vars(ExStart(id)) /\ WF_vars(ExSelect(id)) /\ WF_vars(TickerFire(id))
          /\ SF_vars(ExSelect(id) /\ exec'[id].pc = "on_cancel")
          /\ WF_vars(ExOnCancel(id)) /\ WF_vars(ExOnTick(id)) /\ WF_vars(ExUpdStore(id))
          /\ WF_vars(ExFinLoad(id)) /\ WF_vars(ExFinStore(id)) /\ WF_vars(ExMark(id))
          /\ WF_vars(ExDeferWg(id)) /\ WF_vars(ExDeferChk(id)) /\ WF_vars(ExDeferDel(id))

SpecLive == InitLive /\ [][NextLive]_vars /\ FairLive

\* two tasks of different names, created at times that may differ and executed
\* side by side, and one DeleteTask; the clock stands once an executor runs
InitStamp == InitWith([create |-> 2, names |-> {"Alpha", "Beta"}, delete |-> 1, shutdown |-> 0,
                       stop |-> 1, read |-> 0, aux |-> 0])

NextStamp == Executor \/ CreateTask \/ DeleteTask \/ AdvanceClockIdle

SpecStamp == InitStamp /\ [][NextStamp]_vars

\* one task: created, executed, and two DeleteTask calls
InitDelete == InitWith([create |-> 1, names |-> {"Alpha"}, delete |-> 2, shutdown |-> 0,
                        stop |-> 2, read |-> 0, aux |-> 0])

NextDelete == Executor \/ CreateTask \/ DeleteTask \/ AdvanceClock

SpecDelete == InitDelete /\ [][NextDelete]_vars

\* one task: created, executed, deleted, and one WaitForTask or GetTaskStatus
InitAux == InitWith([create |-> 1, names |-> {"Alpha"}, delete |-> 1, shutdown |-> 0,
                     stop |-> 1, read |-> 0, aux |-> 1])

NextAux == Executor \/ CreateTask \/ DeleteTask \/ WaitForTask \/ GetTaskStatus \/ AdvanceClock

SpecAux == InitAux /\ [][NextAux]_vars

\* Create called directly, by concurrent callers, with identifiers of their choice
RepoCreate ==
    \E c \in Callers :
       \/ \E id \in Ids, name \in quota.names : RepoCreateLoad(c, id, name)
       \/ RepoCreateStore(c)

InitRepo == InitWith([create |-> MaxCallers + 1, names |-> {"Alpha", "Beta"}, delete |-> 0,
                      shutdown |-> 0, stop |-> 0, read |-> 0, aux |-> 0])

NextRepo == RepoCreate

SpecRepo == InitRepo /\ [][NextRepo]_vars

\* the repository and its callers exchanging pointers, the clock standing
InitCopy == InitWith([create |-> 0, names |-> {"Alpha"}, delete |-> 0, shutdown |-> 0,
                      stop |-> 0, read |-> 0, aux |-> 0])

NextCopy ==
    \/ \E id \in Ids : MemCreate(id, "Alpha")
    \/ \E id \in Ids : MemGetByID(id)
    \/ MemGetAll
    \/ \E a \in 1..MaxObjects : MemUpdate(a)
    \/ \E a \in 1..MaxObjects : MemMutate(a)

SpecCopy == InitCopy /\ [][NextCopy]_vars

\* one task with the mutex of its context: every operation of the service
\* called once, concurrently, around the task's executor
InitLock == InitWith([create |-> 0, names |-> {"Alpha"}, delete |-> 0, shutdown |-> 0,
                      stop |-> 0, read |-> 0, aux |-> 0])

NextLock ==
    \/ LkCreateStore \/ LkCreateContext \/ LkCreateAdd \/ LkCreateGo
    \/ LkExecSelect \/ LkExecFinalize
    \/ LkMarkLock \/ LkMarkAcquire \/ LkMarkSet \/ LkMarkClose \/ LkMarkUnlock
    \/ LkExecWgDone \/ LkExecDelete
    \/ \E u \in {"exec", "shutdown", "get"} :
          LkIsFinishedRLock(u) \/ LkIsFinishedRead(u) \/ LkIsFinishedRUnlock(u)
    \/ LkStatusLoad \/ LkStatusRLock \/ LkStatusRead \/ LkStatusRUnlock
    \/ LkWaitLoad \/ LkWaitDone
    \/ LkShutdownRange \/ LkShutdownCancel \/ LkShutdownDone \/ LkShutdownTimeout
    \/ LkGetByID \/ LkGetLoad
    \/ LkDeleteGet \/ LkDeleteLoad \/ LkDeleteCancel \/ LkDeleteUnregister \/ LkDeleteRepo

SpecLock == InitLock /\ [][NextLock]_vars

\* markFinished called up to MaxMarks times on one context
NextMF == \E status \in TaskStatus : MarkFinishedCall(status)

SpecMF == Init /\ [][NextMF]_vars

\* =================================================================== claims
Terminal == {StatusDone, StatusFailed}

\* the record of id is stored with a terminal status, or there is none
StoredTerminalOrAbsent(id) == Loaded(id) => store[id].Status \in Terminal

\* C1: once a read (GetTask or ListTasks) has returned a task with status
\* DONE or FAILED, no later read of that task returns it with PROCESSING.
C1_TerminalStaysTerminal ==
    \A id \in Ids : Shows(id) /\ id \in hist.seenTerminal => ~IsProcessing(Shown(id))

\* a read returns a task that an earlier read has already shown terminal
C1_Witness ==
    \E id \in Ids : Shows(id) /\ id \in hist.seenTerminal /\ Shown(id).Status \in Terminal

\* the tasks a DeleteTask, called after CreateTask had returned them, has
\* returned nil for before their executor finalized
DeletedBeforeCompletion == hist.delEarly \cap hist.delAfterCreate

\* C2: once DeleteTask has returned nil for a task that had not finalized,
\* the task's context has been cancelled, and a read that begins afterwards
\* does not return the task (GetTask fails, ListTasks leaves it out).
C2_DeletedStaysDeleted ==
    /\ \A id \in DeletedBeforeCompletion : id \in cancelFired
    /\ \A id \in DeletedBeforeCompletion : Returning /\ id \in rd.delSnap => ~Shows(id)

\* C3: a task whose context was done (cancelled or timed out) when its
\* executor came to the select is never finalized DONE, also when a tick with
\* the workload elapsed was ready at that select.
C3_CancelledNeverDone == hist.cancelledDone = {}

\* C4: after any sequence of markFinished calls on one context, Done has
\* been closed exactly once and Status is the status of the first call.
C4_FirstCallerWins ==
    mf.calls # <<>> => mf.closes = 1 /\ mf.tc.Status = mf.calls[1]

\* C5: a read that returns a task with PROCESSING reports a processing time
\* no smaller than the previous read that returned it with PROCESSING.
C5_ProcessingTimeMonotone ==
    \A id \in Ids :
       Shows(id) /\ IsProcessing(Shown(id)) /\ hist.lastPt[id] >= 0
          => Shown(id).ProcessingTime >= hist.lastPt[id]

\* C6 as stated: Shutdown cancels every context live when it was called, and
\* when it has returned nil every executor launched before the call has
\* exited and its task is stored terminal or deleted.
C6_ShutdownDrainsExited ==
    /\ sd.pc \notin {"idle", "range"} => hist.sdLive \subseteq cancelFired
    /\ sd.result = "ok" =>
          \A id \in hist.sdLaunched : exec[id].pc = "exited" /\ StoredTerminalOrAbsent(id)

\* C6: when Shutdown's Range has ended, every context that was live when
\* Shutdown was called has been cancelled or has finished; when Shutdown has
\* returned nil, every executor launched before the call has finalized its
\* task and called s.wg.Done(), and its task is stored terminal or absent.
C6_ShutdownDrainsReported ==
    /\ sd.pc \notin {"idle", "range"} =>
          \A id \in hist.sdLive : id \in cancelFired \/ IsFinished(tctx[id])
    /\ sd.result = "ok" =>
          \A id \in hist.sdLaunched : ~Running(id) /\ StoredTerminalOrAbsent(id)

\* Shutdown has returned nil for a context that was live at the call, while
\* the executor is still in its deferred function after s.wg.Done()
C6_Witness ==
    /\ sd.result = "ok"
    /\ \E id \in hist.sdLaunched \cap hist.sdLive :
          exec[id].pc \in {"defer_chk", "defer_del"} /\ id \in cancelFired

\* C7: when the deadline of Shutdown elapsed while an executor launched
\* before the call had not reported completion, Shutdown returns the timeout
\* error, never nil.
C7_TimeoutReported ==
    hist.sdLate /\ sd.pc = "returned" => sd.result = "timeout"

\* C8: the CreateTask calls that returned, concurrent or not, returned
\* pairwise distinct ids, and a ListTasks that began after some of them
\* returned (with no delete) returns every one of their tasks.
C8_DistinctAndListed ==
    /\ hist.returned = Cardinality(DOMAIN hist.created)
    /\ Returning /\ rd.op = "ListTasks" /\ hist.delCalled = {}
          => \A id \in rd.known : Shows(id)

\* MaxTasks CreateTask calls, two of them in progress at once, have returned
\* and a ListTasks that began afterwards returns
C8_Witness ==
    /\ Returning /\ rd.op = "ListTasks"
    /\ hist.concurrent
    /\ Cardinality(rd.known) = MaxTasks
    /\ Len(rd.tasks) = MaxTasks

\* C9: the task CreateTask returns has the name asked for and status
\* PROCESSING, and a GetTask of its id that begins before the executor
\* finalizes and before any DeleteTask returns a task with that id and name,
\* status PROCESSING and a processing time >= 0.
C9_CreateThenGet ==
    /\ \A id \in DOMAIN hist.created :
          /\ hist.created[id].ID = id
          /\ hist.created[id].Name = hist.asked[id]
          /\ IsProcessing(hist.created[id])
    /\ Returning /\ rd.op = "GetTask" /\ rd.fresh =>
          \A id \in rd.scope :
             /\ Shows(id)
             /\ Shown(id).Name = hist.asked[id]
             /\ IsProcessing(Shown(id))
             /\ Shown(id).ProcessingTime >= 0

\* such a GetTask returns, with the time taken from the live context
C9_Witness ==
    /\ Returning /\ rd.op = "GetTask" /\ rd.fresh
    /\ \E id \in rd.scope : Shows(id) /\ Shown(id).ProcessingTime > 0

\* C10: a record appears in the store only by Create: Update never brings
\* in a record for an id the store does not hold, also after a Delete that
\* ran while the Update was in progress.
C10_UpdateNeverCreates ==
    [][\A id \in Ids :
          ~Loaded(id) /\ id \in DOMAIN store'
             => \E c \in Callers : th[c].pc = "c_store" /\ th[c].id = id]_vars

\* C11: of the Create calls made with one identifier, one after another or
\* at once, with no Delete in between, at most one returns nil.
C11_AtMostOneCreate == \A id \in Ids : hist.repoCreated[id] <= 1

\* C12: a DeleteTask called with an id that has no stored record returns
\* GetByID's error at once: the caller is where it was, no context has been
\* cancelled or unregistered, no record and no executor has changed.
C12_DeleteAbsentChangesNothing ==
    [][hist'.delCount # hist.delCount /\ ~Loaded(hist'.delLast)
          => /\ hist'.delLast \in hist'.delNotFound
             /\ UNCHANGED <<th, store, contexts, tctx, cancelFired, exec, wg>>]_vars

\* DeleteTask has returned the error for an id whose context is registered,
\* live and not cancelled
C12_Witness ==
    \E id \in hist.delNotFound :
       id \in contexts /\ ~IsFinished(tctx[id]) /\ id \notin cancelFired /\ ~Loaded(id)

\* C13: WaitForTask returns nil only when the context's Done is closed,
\* returns ctx.Err() only when its ctx is done, and returns the not-found
\* error, without coming to its select, exactly when no context was
\* registered for the id at the call.
C13_WaitForTask ==
    aux.op = "WaitForTask" =>
       /\ aux.pc \in {"w_select", "w_parked"} => aux.registered
       /\ aux.pc = "returned" =>
             /\ aux.result = "ok" => IsFinished(tctx[aux.id])
             /\ aux.result = "ctxerr" => aux.expired
             /\ aux.result = "notfound" <=> ~aux.registered
             /\ aux.result = "notfound" => ~aux.blocked

\* WaitForTask has blocked and then returned nil for a finished task
C13_Witness ==
    /\ aux.op = "WaitForTask" /\ aux.pc = "returned"
    /\ aux.result = "ok" /\ aux.blocked /\ ~aux.expired
    /\ IsFinished(tctx[aux.id])

\* C16: GetTaskStatus returns the not-found indicator exactly when no context
\* was registered for the id at the call, whatever the store holds, and
\* otherwise a status recorded in that context.
C16_GetTaskStatus ==
    aux.op = "GetTaskStatus" /\ aux.pc = "returned" =>
       /\ aux.result = "found" <=> aux.registered
       /\ aux.result = "found" => aux.status \in {StatusProcessing, tctx[aux.id].Status}

\* GetTaskStatus has returned the not-found indicator for an id whose record
\* is in the store
C16_Witness ==
    /\ aux.op = "GetTaskStatus" /\ aux.pc = "returned"
    /\ aux.result = "notfound" /\ Loaded(aux.id)

\* C14: a step of GetTask or ListTasks leaves the store, the registry, the
\* contexts and the executors unchanged; a task it takes from the store is a
\* copy of the stored record; it looks at a context's time only for a task
\* that is PROCESSING and has a registered context; and it changes a task it
\* is about to return only by setting its processing time to now minus the
\* context's start, and only while that context is unfinished.
C14_ReadsAreReadOnly ==
    [][rd' # rd =>
          /\ UNCHANGED <<store, contexts, tctx, cancelFired, exec, wg>>
          /\ \A i \in (Len(rd.tasks) + 1)..Len(rd'.tasks) :
                Loaded(rd'.tasks[i].ID) /\ rd'.tasks[i] = store[rd'.tasks[i].ID]
          /\ (rd.pc # "u_time" /\ rd'.pc = "u_time") =>
                IsProcessing(rd.tasks[rd.idx]) /\ rd.tasks[rd.idx].ID \in contexts
          /\ \A i \in 1..Len(rd.tasks) :
                (i <= Len(rd'.tasks) /\ rd'.tasks[i] # rd.tasks[i]) =>
                   /\ rd.pc = "u_time" /\ i = rd.idx
                   /\ ~IsFinished(tctx[rd.tasks[i].ID])
                   /\ rd'.tasks[i] = [rd.tasks[i] EXCEPT
                                        !.ProcessingTime = now - tctx[rd.tasks[i].ID].Started]]_vars

\* a read returns a PROCESSING task with the live time, larger than the
\* stored one, and the stored record is as it was
C14_Witness ==
    \E id \in Ids :
       /\ Shows(id) /\ IsProcessing(Shown(id)) /\ Loaded(id)
       /\ Shown(id).ProcessingTime > store[id].ProcessingTime
       /\ Shown(id).ProcessingTime = now - tctx[id].Started

\* C15: an executor whose select finds the context's deadline expired, with
\* no DeleteTask or Shutdown having cancelled it, finalizes its task FAILED.
C15_TimeoutFinalizesFailed ==
    [][\A id \in Ids :
          ( /\ exec[id].pc = "on_tick" /\ exec[id].race
            /\ id \notin cancelFired
            /\ exec'[id].pc # "on_tick" )
          => exec'[id].task.Status = StatusFailed]_vars

\* C17: no Task object a caller passed to or received from Create, GetByID,
\* GetAll or Update is an object the store holds, and a step that stores
\* nothing (a caller writing to its objects among them) leaves what reads of
\* the store return unchanged.
C17_CopyIsolation ==
    [][/\ mem'.held \cap {mem'.repo[id] : id \in DOMAIN mem'.repo} = {}
       /\ mem'.repo = mem.repo => StoredTasks' = StoredTasks]_vars

\* a caller changed the name of an object it passed in or got back, the stored
\* record keeps its name, and a copy taken later shows the stored name
C17_Witness ==
    \E id \in DOMAIN mem.repo : \E a, b \in mem.held :
       /\ a < b
       /\ mem.heap[a].ID = id /\ mem.heap[a].Name = "Mutated"
       /\ mem.heap[mem.repo[id]].Name = "Alpha"
       /\ mem.heap[b] = mem.heap[mem.repo[id]]

\* C18: an executor's task becomes DONE only in the step of a tick at which
\* the elapsed time has reached the workDuration drawn at the start, with that
\* elapsed time as its processing time; a tick before that leaves the task
\* not DONE with the elapsed time, and what it then writes to the store is
\* PROCESSING with that time; a DONE record enters the store only as the
\* executor's finalized task, its processing time at least a workDuration.
C18_DoneOnlyAtDueTick ==
    [][\A id \in Ids :
          LET e == exec[id]
              elapsed == now - exec[id].start
              written == id \in DOMAIN store' /\ (id \in DOMAIN store => store'[id] # store[id])
          IN /\ (exec'[id].task.Status = StatusDone /\ e.task.Status # StatusDone) =>
                   /\ e.pc = "on_tick" /\ elapsed >= e.workDuration
                   /\ e.workDuration \in WorkDurations
                   /\ exec'[id].task.ProcessingTime = elapsed
             /\ (e.pc = "on_tick" /\ exec'[id].pc # "on_tick" /\ elapsed < e.workDuration) =>
                   /\ exec'[id].task.Status # StatusDone
                   /\ exec'[id].task.ProcessingTime = elapsed
                   /\ exec'[id].pc = "upd_store" => IsProcessing(exec'[id].task)
             /\ (e.pc = "upd_store" /\ exec'[id].pc # "upd_store") =>
                   /\ written => store'[id] = e.task
                   /\ store'[id].Status = StatusProcessing
             /\ (written /\ store'[id].Status = StatusDone) =>
                   /\ e.pc = "fin_store" /\ store'[id] = e.task
                   /\ store'[id].ProcessingTime >= workDurationBase]_vars

\* an executor that persisted an earlier tick's time with PROCESSING is about
\* to persist DONE with the later time of the tick that reached its workDuration
C18_Witness ==
    \E id \in Ids :
       /\ exec[id].pc = "fin_store" /\ exec[id].task.Status = StatusDone
       /\ Loaded(id) /\ store[id].Status = StatusProcessing
       /\ store[id].ProcessingTime > 0
       /\ exec[id].task.ProcessingTime > store[id].ProcessingTime

\* how far an executor has come on its way out after a failed periodic Update
FailRank(pc) ==
    CASE pc = "fin_load" -> 1 [] pc = "fin_store" -> 2 [] pc = "mark" -> 3
      [] pc = "defer_wg" -> 4 [] pc = "defer_chk" -> 5 [] pc = "defer_del" -> 6
      [] pc = "exited" -> 7 [] OTHER -> 0

\* C19: once an executor's periodic Update has failed, the executor holds its
\* task FAILED and only moves forward through finalizeTask, markFinished and
\* its deferred calls to its exit, never back to the select; it writes the
\* store at most in the one Update of finalizeTask; from markFinished on the
\* context is finished with status FAILED; and its steps leave every other
\* task's record, context, registration and executor as they were.
C19_UpdateFailureFailsTask ==
    [][\A id \in hist'.updFailed :
          LET r == FailRank(exec[id].pc)
              r2 == FailRank(exec'[id].pc)
          IN /\ r2 >= 1
             /\ id \in hist.updFailed => r2 \in {r, r + 1, r + 2}
             /\ id \notin hist.updFailed => exec[id].pc = "on_tick" /\ r2 = 1
             /\ r2 <= 3 => exec'[id].task.Status = StatusFailed
             /\ r2 >= 4 => IsFinished(tctx'[id]) /\ tctx'[id].Status = StatusFailed
             /\ (id \in DOMAIN store' /\ (id \in DOMAIN store => store'[id] # store[id])) =>
                   r = 2 /\ r2 = 3 /\ store'[id].Status = StatusFailed
             /\ exec'[id] # exec[id] =>
                   \A j \in Ids \ {id} :
                      /\ exec'[j] = exec[j]
                      /\ (j \in DOMAIN store') = (j \in DOMAIN store)
                      /\ j \in DOMAIN store => store'[j] = store[j]
                      /\ j \in DOMAIN tctx => j \in DOMAIN tctx' /\ tctx'[j] = tctx[j]
                      /\ (j \in contexts') = (j \in contexts)
                      /\ (j \in cancelFired') = (j \in cancelFired)]_vars

\* an executor whose periodic Update failed has exited with its context FAILED
\* while the other task is stored, registered, PROCESSING and being executed
C19_Witness ==
    \E id \in hist.updFailed : \E j \in Ids \ {id} :
       /\ exec[id].pc = "exited" /\ tctx[id].Status = StatusFailed
       /\ exec[j].pc \in {"select", "parked", "on_tick", "upd_store"}
       /\ Loaded(j) /\ IsProcessing(store[j]) /\ j \in contexts /\ ~IsFinished(tctx[j])

\* C20: an executor that has returned, by whichever path, has left its
\* context marked finished with status DONE or FAILED, and the registry holds
\* no context under its task's id.
C20_ExitLeavesContextFinished ==
    \A id \in Ids :
       exec[id].pc = "exited" =>
          /\ IsFinished(tctx[id])
          /\ tctx[id].Status \in {StatusDone, StatusFailed}
          /\ id \notin contexts

\* an executor has returned after completing its workload: the record is
\* stored DONE, the context is finished DONE and is registered no more
C20_Witness ==
    \E id \in Ids :
       /\ exec[id].pc = "exited" /\ id \notin cancelFired
       /\ IsFinished(tctx[id]) /\ tctx[id].Status = StatusDone
       /\ Loaded(id) /\ store[id].Status = StatusDone
       /\ id \notin contexts

\* C21: a write to a task's stored record after its creation is made by that
\* task's executor, in its periodic Update or in finalizeTask's Update, and
\* stores the executor's task; the processing time of the executor's task and
\* of the stored record never decreases; and a stored record with a terminal
\* status keeps its processing time for as long as it is stored.
C21_ProcessingTimeWrites ==
    [][\A id \in Ids :
          LET e == exec[id]
              stored == id \in DOMAIN store
              written == id \in DOMAIN store' /\ (stored => store'[id] # store[id])
          IN /\ (written /\ stored) =>
                   e.pc \in {"upd_store", "fin_store"} /\ store'[id] = e.task
             /\ (written /\ ~stored) =>
                   \/ e.pc \in {"upd_store", "fin_store"} /\ store'[id] = e.task
                   \/ e.pc = "idle" /\ store'[id].ProcessingTime = 0
             /\ (e.task.ID = id /\ exec'[id].task.ID = id) =>
                   exec'[id].task.ProcessingTime >= e.task.ProcessingTime
             /\ (stored /\ id \in DOMAIN store') =>
                   /\ store'[id].ProcessingTime >= store[id].ProcessingTime
                   /\ store[id].Status \in {StatusDone, StatusFailed} =>
                         store'[id].ProcessingTime = store[id].ProcessingTime]_vars

\* after periodic writes of a smaller processing time, a cancelled executor is
\* about to store its finalization with a larger one
C21_Witness ==
    \E id \in Ids :
       /\ exec[id].pc = "fin_store" /\ exec[id].task.Status = StatusFailed
       /\ Loaded(id) /\ IsProcessing(store[id])
       /\ store[id].ProcessingTime > 0
       /\ exec[id].task.ProcessingTime > store[id].ProcessingTime

\* an executor that has been launched and has not yet called finalizeTask
Unfinalized(id) ==
    exec[id].pc \in {"init", "select", "parked", "on_tick", "upd_store", "on_cancel"}

\* a DeleteTask for id is past its lookup in the registry, or has removed the record
DeleteUnderWay(id) ==
    \/ id \in hist.delOk
    \/ \E c \in Callers : th[c].id = id /\ th[c].pc \in {"d_load", "d_del"}

\* C22 as stated: the registry holds a context for every task whose executor
\* has not finalized and whose record no DeleteTask has removed.
C22_RegisteredUntilDeleted ==
    \A id \in Ids : Unfinalized(id) /\ id \notin hist.delOk => id \in contexts

\* C22: a context is stored in the registry only under an id that never had
\* one; and the registry holds a context for every task whose executor has
\* not finalized, unless a DeleteTask for that id has passed its lookup in
\* the registry (and unregistered what it found) or has removed the record.
C22_RegisteredUntilDeleteBegins ==
    [][\A id \in Ids :
          /\ (id \in contexts' /\ id \notin contexts) => id \notin DOMAIN tctx
          /\ (Unfinalized(id)' /\ id \notin contexts') => DeleteUnderWay(id)']_vars

\* a DeleteTask has unregistered the context and not yet removed the record,
\* while the executor has not finalized
C22_Witness ==
    \E id \in Ids : \E c \in Callers :
       /\ th[c].id = id /\ th[c].pc = "d_del"
       /\ Unfinalized(id) /\ id \notin contexts /\ Loaded(id)
       /\ id \in cancelFired /\ id \notin hist.delOk

\* C23: an executor that has not finalized, of a task for which DeleteTask has
\* returned nil, has had its context cancelled.
C23_DeleteCancelsExecutor ==
    \A id \in hist.delOk : Unfinalized(id) => id \in cancelFired

\* C24: a DeleteTask returns nil only for a task that no other DeleteTask has
\* returned nil for.
C24_OneDeleteSucceeds ==
    [][\A c \in Callers :
          (th[c].pc = "d_del" /\ th'[c].pc # "d_del") => th[c].id \notin hist.delOk]_vars

\* C25: under fair scheduling, a task whose context CreateTask has built is
\* led to a state where its executor has returned, the registry holds no
\* context for it, and its record is stored DONE or FAILED or is not stored.
C25_ExecutorEventuallyExits ==
    \A id \in Ids :
       (id \in DOMAIN tctx) ~>
          (exec[id].pc = "exited" /\ id \notin contexts /\ StoredTerminalOrAbsent(id))

\* the executor of a task that DeleteTask removed has returned after its
\* cancellation, and neither context nor record is left
C25_Witness ==
    \E id \in hist.delOk :
       /\ exec[id].pc = "exited" /\ id \in cancelFired
       /\ tctx[id].Status = StatusFailed
       /\ id \notin contexts /\ ~Loaded(id)

\* the goroutine holds the mutex of the context, for reading or for writing
LkHolds(u) == u \in lk.r \/ lk.w = u

\* the places where a goroutine is between locking and unlocking: what it
\* does there reads or writes tc.Status and tc.Done and nothing else
LkCritical == {"m_set", "m_close", "m_unlock", "i_read", "i_runlock", "g_read", "g_runlock"}

\* C26: a goroutine that holds the context's mutex is in markFinished,
\* IsFinished or the read of GetTaskStatus, never at an operation on the
\* store, the registry or the WaitGroup and never blocked in a select; and in
\* every state some goroutine can take a step, unless all have returned.
C26_NoDeadlock ==
    /\ \A u \in Units : LkHolds(u) => lk.pc[u] \in LkCritical
    /\ (\E u \in Units : lk.pc[u] \notin {"returned", "idle"}) => ENABLED NextLock

\* GetTaskStatus and Shutdown's IsFinished hold the read lock while
\* markFinished waits for the mutex and WaitForTask is blocked in its select
C26_Witness ==
    /\ "status" \in lk.r /\ "shutdown" \in lk.r
    /\ lk.pc["exec"] = "m_wait"
    /\ lk.pc["wait"] = "w_select" /\ ~lk.done

\* a step of the executor of id
ExecutorStep(id) == exec[id].pc # "idle" /\ exec'[id] # exec[id]

\* a step of a DeleteTask call for id after its GetByID, its Cancel included
DeleteStep(id) ==
    \E c \in Callers :
       /\ th[c].id = id /\ th'[c] # th[c]
       /\ th[c].pc \in {"d_ctx", "d_cancel", "d_unreg", "d_load", "d_del"}

\* the record and the context of j are after the step what they were before
Untouched(j) ==
    /\ (j \in DOMAIN store') = (j \in DOMAIN store)
    /\ j \in DOMAIN store => store'[j] = store[j]
    /\ (j \in DOMAIN tctx') = (j \in DOMAIN tctx)
    /\ j \in DOMAIN tctx => tctx'[j] = tctx[j]
    /\ (j \in contexts') = (j \in contexts)
    /\ (j \in cancelFired') = (j \in cancelFired)

\* C27: a stored record keeps its id, its name and its creation time from one
\* state to the next, they are the id it is stored under, the name CreateTask
\* was called with and the creation time of the task CreateTask returned; and
\* a step of one task's executor or of a DeleteTask for it leaves the record
\* and the context of every other task untouched.
C27_IdentityAndIndependence ==
    [][\A id \in Ids :
          /\ (id \in DOMAIN store /\ id \in DOMAIN store') =>
                /\ store'[id].ID = store[id].ID
                /\ store'[id].Name = store[id].Name
                /\ store'[id].CreatedAt = store[id].CreatedAt
          /\ id \in DOMAIN store' => store'[id].ID = id
          /\ (id \in DOMAIN store' /\ id \in DOMAIN hist'.created) =>
                /\ store'[id].Name = hist'.asked[id]
                /\ store'[id].CreatedAt = hist'.created[id].CreatedAt
          /\ (ExecutorStep(id) \/ DeleteStep(id)) =>
                \A j \in Ids \ {id} : Untouched(j)]_vars

\* two tasks of different names and creation times; one has been deleted and
\* its executor has finalized, the other is stored as created, registered and
\* not cancelled, with its executor polling
C27_Witness ==
    \E id \in hist.delOk : \E j \in Ids \ {id} :
       /\ ~Loaded(id) /\ id \in hist.finalized /\ id \in DOMAIN hist.created
       /\ Loaded(j) /\ j \in DOMAIN hist.created
       /\ store[j].Name # hist.asked[id]
       /\ store[j].CreatedAt # hist.created[id].CreatedAt
       /\ j \in contexts /\ j \notin cancelFired /\ ~IsFinished(tctx[j])
       /\ exec[j].pc \in {"select", "parked", "on_tick", "upd_store"}
====
